---------------------------- MODULE Spec2Model ----------------------------
(***************************************************************************)
(* Model of the automated program repair agent: the LangGraph workflow of *)
(* src/agent_graph.py (load_code -> localize_defect -> generate_patch ->  *)
(* apply_patch -> validate_patch -> finish_success | finish_failure) and  *)
(* the tools of src/tools.py it calls.                                    *)
(*                                                                         *)
(* Python str values are TLA+ strings; characters are read with SubSeq.   *)
(* The texts fed to the model hold no "\r" and no "\f", so text-mode      *)
(* newline translation on file reads is the identity on them.             *)
(***************************************************************************)
EXTENDS Integers, Sequences, FiniteSets, TLC

VARIABLES
    state,          \* the APRState dict threaded through the nodes
    disk,           \* the file at state.file_path: [exists, content]
    pc,             \* the node the graph runs next ("END" after a finish node)
    executed,       \* history: how often each node has run
    faults,         \* history: the nodes whose except branch has run
    validate_log,   \* history: the verdict of each test run made by Validate
    initial_passed, \* history: the pass/fail verdict of the Localize test run
    last_response,  \* history: the raw text of the last oracle reply
    last_prompt     \* history: the prompt_input of the last oracle call

vars == <<state, disk, pc, executed, faults, validate_log, initial_passed,
          last_response, last_prompt>>

(***************************************************************************)
(* Bounds of the model.                                                    *)
(***************************************************************************)
\* max_attempts of a session ranges over 0..MaxAttemptsBound
MaxAttemptsBound == 3
\* ApplySpec: stored files are all texts of at most MaxFileLen characters
MaxFileLen == 4
\* ApplySpec: candidate lines are all texts of at most MaxPatchLen characters
MaxPatchLen == 2
\* ApplySpec: line numbers range over -1..MaxLineNo
MaxLineNo == 3

\* main(): 'max_attempts': 3
DefaultMaxAttempts == 3

(***************************************************************************)
(* Python str primitives.                                                  *)
(***************************************************************************)
Ch(s, i) == SubSeq(s, i, i)

\* the characters str.strip / str.lstrip remove (those the model's texts use)
Whitespace == {" ", "\t", "\n", "\r", "\f"}

Max(a, b) == IF a >= b THEN a ELSE b

Min(a, b) == IF a <= b THEN a ELSE b

RECURSIVE LStrip(_)
LStrip(s) ==
    IF Len(s) > 0 /\ Ch(s, 1) \in Whitespace THEN LStrip(SubSeq(s, 2, Len(s)))
    ELSE s

RECURSIVE RStrip(_)
RStrip(s) ==
    IF Len(s) > 0 /\ Ch(s, Len(s)) \in Whitespace
    THEN RStrip(SubSeq(s, 1, Len(s) - 1))
    ELSE s

Strip(s) == RStrip(LStrip(s))

StartsWith(s, p) == Len(p) <= Len(s) /\ SubSeq(s, 1, Len(p)) = p

EndsWith(s, p) ==
    Len(p) <= Len(s) /\ SubSeq(s, Len(s) - Len(p) + 1, Len(s)) = p

\* sub in s
Contains(s, sub) ==
    \E i \in 1..(Len(s) - Len(sub) + 1) : SubSeq(s, i, i + Len(sub) - 1) = sub

\* ' ' * n
RECURSIVE Spaces(_)
Spaces(n) == IF n <= 0 THEN "" ELSE " " \o Spaces(n - 1)

\* ''.join(lines)
RECURSIVE Join(_)
Join(lines) == IF lines = <<>> THEN "" ELSE Head(lines) \o Join(Tail(lines))

\* sep.join(lines)
RECURSIVE JoinWith(_, _)
JoinWith(sep, lines) ==
    IF lines = <<>> THEN ""
    ELSE IF Len(lines) = 1 THEN Head(lines)
    ELSE Head(lines) \o sep \o JoinWith(sep, Tail(lines))

LowerAlphabet == "abcdefghijklmnopqrstuvwxyz"

UpperAlphabet == "ABCDEFGHIJKLMNOPQRSTUVWXYZ"

\* the letters' case mappings, as tables
ToUpper == [c \in {Ch(LowerAlphabet, k) : k \in 1..26} |->
                Ch(UpperAlphabet, CHOOSE k \in 1..26 : Ch(LowerAlphabet, k) = c)]

ToLower == [c \in {Ch(UpperAlphabet, k) : k \in 1..26} |->
                Ch(LowerAlphabet, CHOOSE k \in 1..26 : Ch(UpperAlphabet, k) = c)]

UpperCh(c) == IF c \in DOMAIN ToUpper THEN ToUpper[c] ELSE c

LowerCh(c) == IF c \in DOMAIN ToLower THEN ToLower[c] ELSE c

\* s.upper()
RECURSIVE Upper(_)
Upper(s) ==
    IF s = "" THEN "" ELSE UpperCh(Ch(s, 1)) \o Upper(SubSeq(s, 2, Len(s)))

\* s.lower()
RECURSIVE Lower(_)
Lower(s) ==
    IF s = "" THEN "" ELSE LowerCh(Ch(s, 1)) \o Lower(SubSeq(s, 2, Len(s)))

\* f.readlines(): the lines of a text, each keeping its "\n"
RECURSIVE ReadLinesFrom(_, _, _)
ReadLinesFrom(s, start, i) ==
    IF i > Len(s)
    THEN IF start <= Len(s) THEN <<SubSeq(s, start, Len(s))>> ELSE <<>>
    ELSE IF Ch(s, i) = "\n"
         THEN <<SubSeq(s, start, i)>> \o ReadLinesFrom(s, i + 1, i + 1)
         ELSE ReadLinesFrom(s, start, i + 1)

ReadLines(s) == ReadLinesFrom(s, 1, 1)

\* the line boundaries str.splitlines() knows among the model's characters
LineBoundaries == {"\n", "\r", "\f"}

\* s.splitlines(): the lines without their terminators, "\r\n" being one
RECURSIVE SplitLinesFrom(_, _, _)
SplitLinesFrom(s, start, i) ==
    IF i > Len(s)
    THEN IF start <= Len(s) THEN <<SubSeq(s, start, Len(s))>> ELSE <<>>
    ELSE IF Ch(s, i) = "\r" /\ i < Len(s) /\ Ch(s, i + 1) = "\n"
         THEN <<SubSeq(s, start, i - 1)>> \o SplitLinesFrom(s, i + 2, i + 2)
         ELSE IF Ch(s, i) \in LineBoundaries
              THEN <<SubSeq(s, start, i - 1)>> \o SplitLinesFrom(s, i + 1, i + 1)
              ELSE SplitLinesFrom(s, start, i + 1)

SplitLines(s) == SplitLinesFrom(s, 1, 1)

\* s.split('\n'): the pieces between the "\n", empty pieces kept
RECURSIVE SplitNLFrom(_, _, _)
SplitNLFrom(s, start, i) ==
    IF i > Len(s) THEN <<SubSeq(s, start, Len(s))>>
    ELSE IF Ch(s, i) = "\n"
         THEN <<SubSeq(s, start, i - 1)>> \o SplitNLFrom(s, i + 1, i + 1)
         ELSE SplitNLFrom(s, start, i + 1)

SplitNL(s) == SplitNLFrom(s, 1, 1)

\* lines[a:b] of a Python list (negative indices count from the end)
Slice(lines, a, b) ==
    LET n  == Len(lines)
        lo == IF a < 0 THEN Max(0, n + a) ELSE Min(a, n)
        hi == IF b < 0 THEN Max(0, n + b) ELSE Min(b, n)
    IN  IF lo >= hi THEN <<>> ELSE SubSeq(lines, lo + 1, hi)

\* s.replace(old, '') for a non-empty old
RECURSIVE Remove(_, _)
Remove(s, old) ==
    IF s = "" THEN ""
    ELSE IF StartsWith(s, old) THEN Remove(SubSeq(s, Len(old) + 1, Len(s)), old)
    ELSE Ch(s, 1) \o Remove(SubSeq(s, 2, Len(s)), old)

\* s.split(sep)[0] for a one-character sep
RECURSIVE Before(_, _)
Before(s, sep) ==
    IF s = "" \/ Ch(s, 1) = sep THEN ""
    ELSE Ch(s, 1) \o Before(SubSeq(s, 2, Len(s)), sep)

DigitChars == "0123456789"

IsDigit(c) == \E k \in 1..10 : Ch(DigitChars, k) = c

DigitAt(s, i) == i >= 1 /\ i <= Len(s) /\ IsDigit(Ch(s, i))

DigitVal(c) == (CHOOSE k \in 1..10 : Ch(DigitChars, k) = c) - 1

\* int(s) for a string of decimal digits
RECURSIVE ParseInt(_)
ParseInt(s) ==
    IF s = "" THEN 0
    ELSE 10 * ParseInt(SubSeq(s, 1, Len(s) - 1)) + DigitVal(Ch(s, Len(s)))

\* f"{n:3d}"
Format3d(n) == Spaces(3 - Len(ToString(n))) \o ToString(n)

\* Python's None, and a value that is not None
None == [is_none |-> TRUE]

Some(v) == [is_none |-> FALSE, value |-> v]

\* what a call produces: a returned value or a raised exception's str()
Return(v) == [ok |-> TRUE, value |-> v]

Raise(msg) == [ok |-> FALSE, error |-> msg]

(***************************************************************************)
(* src/tools.py                                                            *)
(***************************************************************************)
\* LoadCodeTool.__call__: the file's text, or FileNotFoundError
LoadCodeTool(d, path) ==
    IF d.exists THEN Return(d.content)
    ELSE Raise("Could not find file: " \o path)

\* a variant of RunTestsTool whose timeout text carries no failure marker
RunTestsTool_QuietTimeout(run) ==
    IF run.kind = "timeout"
    THEN "Test execution timed out after 30 seconds"
    ELSE IF run.kind = "failed"
    THEN "ERROR: Failed to run tests - " \o run.error
    ELSE LET output == run.stdout \o run.stderr
         IN  IF Strip(output) # "" THEN output ELSE "No test output generated"

\* RunTestsTool.__call__ on what the tester process did: it completed with
\* some stdout and stderr, it ran past the 30 s timeout, or starting it
\* raised.  Never raises itself.
RunTestsTool(run) ==
    IF run.kind = "timeout"
    THEN "ERROR: Test execution timed out after 30 seconds"
    ELSE IF run.kind = "failed"
    THEN "ERROR: Failed to run tests - " \o run.error
    ELSE LET output == run.stdout \o run.stderr
         IN  IF Strip(output) # "" THEN output ELSE "No test output generated"

\* the indentation rule of ApplyPatchTool.__call__ (lines 60-70): the line
\* stored for new_line when it replaces original_line
PatchedLine(original_line, new_line) ==
    LET original_indent == Len(original_line) - Len(LStrip(original_line))
        indented ==
            IF Strip(new_line) # "" /\ ~StartsWith(new_line, Spaces(original_indent))
            THEN Spaces(original_indent) \o Strip(new_line)
            ELSE new_line
    IN  IF ~EndsWith(indented, "\n") THEN indented \o "\n" ELSE indented

\* a variant of the range check that lets line 0 through
OutOfRange_ZeroAccepted(line_no, n_lines) == line_no < 0 \/ line_no > n_lines

\* the range check of ApplyPatchTool.__call__ (line 57)
OutOfRange(line_no, n_lines) == line_no < 1 \/ line_no > n_lines

\* ApplyPatchTool.__call__: the patched text, which is also written to the
\* file ("content"), or the wrapped exception
ApplyPatchTool(d, path, line_no, new_line) ==
    LET where == "Error applying patch to " \o path \o " at line "
                    \o ToString(line_no) \o ": "
    IN  IF ~d.exists
        THEN Raise(where \o "[Errno 2] No such file or directory: '" \o path \o "'")
        ELSE LET lines == ReadLines(d.content)
             IN  IF OutOfRange(line_no, Len(lines))
                 THEN Raise(where \o "Line number " \o ToString(line_no)
                            \o " is out of range (1-" \o ToString(Len(lines)) \o ")")
                 ELSE LET \* lines[line_no - 1]: index -1 is the last line
                          idx == IF line_no >= 1 THEN line_no ELSE Len(lines) + line_no
                      IN  IF idx \notin 1..Len(lines)
                          THEN Raise(where \o "list index out of range")
                          ELSE Return(Join([lines EXCEPT
                                  ![idx] = PatchedLine(lines[idx], new_line)]))

\* CodeAnalysisTool.get_function_context, lines 111-116: the nearest line at
\* or above index i that starts, stripped, with 'def '; 0 when there is none
RECURSIVE FunctionHeader(_, _)
FunctionHeader(lines, i) ==
    IF i < 1 THEN 0
    ELSE IF StartsWith(Strip(lines[i]), "def ") THEN i
    ELSE FunctionHeader(lines, i - 1)

\* CodeAnalysisTool.get_function_context; lines[line_no - 1] raises
\* IndexError when line_no is past the last line
get_function_context(code, line_no) ==
    LET lines == SplitLines(code)
    IN  IF line_no >= 1 /\ line_no > Len(lines)
        THEN Raise("list index out of range")
        ELSE LET h == FunctionHeader(lines, line_no)
                 context_start == Max(0, line_no - 5)
                 context_end == Min(Len(lines), line_no + 5)
             IN  Return([
                    function_name |->
                        IF h = 0 THEN None
                        ELSE Some(Strip(Remove(Before(Strip(lines[h]), "("), "def "))),
                    function_start_line |-> IF h = 0 THEN None ELSE Some(h),
                    error_line |-> line_no,
                    context_lines |-> Slice(lines, context_start, context_end),
                    context_start_line |-> context_start + 1])

(***************************************************************************)
(* src/agent_graph.py: helper functions                                    *)
(***************************************************************************)
\* re.IGNORECASE match of a literal at position i
LiteralAt(s, i, lit) ==
    /\ i >= 1
    /\ i + Len(lit) - 1 <= Len(s)
    /\ Lower(SubSeq(s, i, i + Len(lit) - 1)) = Lower(lit)

\* the end of the greedy \d+ that starts at the digit at position i
RECURSIVE DigitRunEnd(_, _)
DigitRunEnd(s, i) == IF DigitAt(s, i + 1) THEN DigitRunEnd(s, i + 1) ELSE i

\* the first '"' at or after position i, 0 when there is none
RECURSIVE NextQuote(_, _)
NextQuote(s, i) ==
    IF i > Len(s) THEN 0
    ELSE IF Ch(s, i) = "\"" THEN i
    ELSE NextQuote(s, i + 1)

\* the patterns of extract_error_line_number, in the order of the list
Patterns == <<"line (\\d+)", "File \"[^\"]+\", line (\\d+)", "Error on line (\\d+)",
              "at line (\\d+)", "Line (\\d+):">>

\* where group 1 starts when pattern p matches at position i, else 0
GroupStart(p, s, i) ==
    LET after(lit) == IF LiteralAt(s, i, lit) /\ DigitAt(s, i + Len(lit))
                      THEN i + Len(lit) ELSE 0
    IN  CASE p = "line (\\d+)" -> after("line ")
          [] p = "Error on line (\\d+)" -> after("Error on line ")
          [] p = "at line (\\d+)" -> after("at line ")
          [] p = "Line (\\d+):" ->
                LET g == after("Line ")
                IN  IF g # 0 /\ DigitRunEnd(s, g) < Len(s)
                            /\ Ch(s, DigitRunEnd(s, g) + 1) = ":"
                    THEN g ELSE 0
          [] p = "File \"[^\"]+\", line (\\d+)" ->
                LET q == NextQuote(s, i + 6)
                IN  IF LiteralAt(s, i, "File \"") /\ q > i + 6
                            /\ LiteralAt(s, q, "\", line ") /\ DigitAt(s, q + 8)
                    THEN q + 8 ELSE 0

\* re.search(p, s, re.IGNORECASE): the positions where p matches
MatchesOf(p, s) == {i \in 1..Len(s) : GroupStart(p, s, i) # 0}

SetMin(S) == CHOOSE x \in S : \A y \in S : x <= y

\* extract_error_line_number: group 1 of the leftmost match of the first
\* pattern of the list that matches at all, 1 when none does
extract_error_line_number(test_output) ==
    LET hits == {k \in 1..Len(Patterns) : MatchesOf(Patterns[k], test_output) # {}}
    IN  IF hits = {} THEN 1
        ELSE LET p == Patterns[SetMin(hits)]
                 g == GroupStart(p, test_output, SetMin(MatchesOf(p, test_output)))
             IN  ParseInt(SubSeq(test_output, g, DigitRunEnd(test_output, g)))

\* a variant of identify_error_type that looks for an assertion first
identify_error_type_AssertionFirst(test_output) ==
    LET error_output_lower == Lower(test_output)
    IN  IF Contains(error_output_lower, "assertion")
        THEN "Logic Error (incorrect algorithm behavior)"
        ELSE IF Contains(error_output_lower, "indexerror")
        THEN "Index Error (likely off-by-one or boundary issue)"
        ELSE IF Contains(error_output_lower, "keyerror")
        THEN "Key Error (missing dictionary key)"
        ELSE IF Contains(error_output_lower, "typeerror")
        THEN "Type Error (incorrect data type usage)"
        ELSE IF Contains(error_output_lower, "valueerror")
        THEN "Value Error (invalid value)"
        ELSE IF Contains(error_output_lower, "nameerror")
        THEN "Name Error (undefined variable)"
        ELSE IF Contains(error_output_lower, "infinite")
                \/ Contains(error_output_lower, "timeout")
        THEN "Infinite Loop or Performance Issue"
        ELSE "General Error"

\* identify_error_type
identify_error_type(test_output) ==
    LET error_output_lower == Lower(test_output)
    IN  IF Contains(error_output_lower, "indexerror")
        THEN "Index Error (likely off-by-one or boundary issue)"
        ELSE IF Contains(error_output_lower, "keyerror")
        THEN "Key Error (missing dictionary key)"
        ELSE IF Contains(error_output_lower, "typeerror")
        THEN "Type Error (incorrect data type usage)"
        ELSE IF Contains(error_output_lower, "valueerror")
        THEN "Value Error (invalid value)"
        ELSE IF Contains(error_output_lower, "nameerror")
        THEN "Name Error (undefined variable)"
        ELSE IF Contains(error_output_lower, "assertion")
        THEN "Logic Error (incorrect algorithm behavior)"
        ELSE IF Contains(error_output_lower, "infinite")
                \/ Contains(error_output_lower, "timeout")
        THEN "Infinite Loop or Performance Issue"
        ELSE "General Error"

\* get_code_context with its default radius of 3
get_code_context(code, line_no) ==
    LET lines == SplitLines(code)
        start_idx == Max(0, line_no - 1 - 3)
        end_idx == Min(Len(lines), line_no + 3)
        row(i) == (IF i + 1 = line_no THEN ">>> " ELSE "    ")
                    \o Format3d(i + 1) \o ": " \o lines[i + 1]
    IN  JoinWith("\n", [k \in 1..Max(0, end_idx - start_idx) |-> row(start_idx + k - 1)])

\* s[-n:]
Tail_(s, n) == IF Len(s) <= n THEN s ELSE SubSeq(s, Len(s) - n + 1, Len(s))

\* 'FAIL' not in out.upper() and 'ERROR' not in out.upper()
TestsPassed(out) == ~Contains(Upper(out), "FAIL") /\ ~Contains(Upper(out), "ERROR")

\* generate_patch_node, lines 183-195: the prompt_input dict
PromptInput(s) ==
    LET fc == s.function_context
        \* .get('function_name', 'unknown')
        function_name == IF "function_name" \in DOMAIN fc THEN fc.function_name
                         ELSE Some("unknown")
        shown == IF function_name.is_none THEN "None" ELSE function_name.value
    IN  [function_context |->
            IF function_name # Some("unknown")
            THEN "Function '" \o shown \o "'" ELSE "Code section",
         error_type |-> identify_error_type(s.test_output),
         code_context |-> get_code_context(s.current_code, s.error_line_no),
         error_line |-> s.error_line_no,
         test_output |-> Tail_(s.test_output, 500),
         attempt_num |-> s.attempts + 1]

\* The backquote cannot be written in a string of this language: the texts of
\* the model write it as "~", so a code-fence marker reads "~~~".
Backquote == "~"

\* the fence marker of line 201
Fence == Backquote \o Backquote \o Backquote

\* generate_patch_node, lines 204-207: the first line that is not empty and
\* is not a fence line, <<>> when there is none
RECURSIVE FirstUsable(_)
FirstUsable(lines) ==
    IF lines = <<>> THEN <<>>
    ELSE IF Strip(Head(lines)) # "" /\ ~StartsWith(Strip(Head(lines)), Fence)
    THEN <<Head(lines)>>
    ELSE FirstUsable(Tail(lines))

\* generate_patch_node, lines 198-207: patch_line from the oracle's text
CleanResponse(content) ==
    LET patch_line == Strip(content)
    IN  IF Contains(patch_line, Fence)
        THEN LET found == FirstUsable(SplitNL(patch_line))
             IN  IF found # <<>> THEN found[1] ELSE patch_line
        ELSE patch_line

(***************************************************************************)
(* src/agent_graph.py: the nodes.  Each maps the state dict to the next    *)
(* one; "tools" is what initialize_tools_and_llm() did inside the node's   *)
(* try block (it returned, or it raised).                                  *)
(***************************************************************************)
load_code_node(s, tools, d) ==
    LET code == IF tools.ok THEN LoadCodeTool(d, s.file_path) ELSE tools
    IN  IF code.ok
        THEN [s EXCEPT !.original_code = code.value,
                       !.current_code = code.value,
                       !.error_message = ""]
        ELSE [s EXCEPT !.error_message = "Failed to load code: " \o code.error,
                       !.success = FALSE]

localize_defect_node(s, tools, run) ==
    LET test_output == RunTestsTool(run)
        error_line == extract_error_line_number(test_output)
        function_context ==
            IF tools.ok THEN get_function_context(s.current_code, error_line)
            ELSE tools
    IN  IF function_context.ok
        THEN [s EXCEPT !.test_output = test_output,
                       !.error_line_no = error_line,
                       !.function_context = function_context.value,
                       !.tests_passed = TestsPassed(test_output)]
        ELSE [s EXCEPT !.error_message =
                            "Failed to localize defect: " \o function_context.error,
                       !.success = FALSE]

\* a variant of generate_patch_node that forgets to count the attempt
generate_patch_node_NoIncrement(s, tools, reply) ==
    LET response == IF tools.ok THEN reply ELSE tools
    IN  IF response.ok
        THEN [s EXCEPT !.patch_line = CleanResponse(response.value)]
        ELSE [s EXCEPT !.error_message = "Failed to generate patch: " \o response.error,
                       !.success = FALSE]

generate_patch_node(s, tools, reply) ==
    LET response == IF tools.ok THEN reply ELSE tools
    IN  IF response.ok
        THEN [s EXCEPT !.patch_line = CleanResponse(response.value),
                       !.attempts = s.attempts + 1]
        ELSE [s EXCEPT !.error_message = "Failed to generate patch: " \o response.error,
                       !.success = FALSE]

\* apply_patch_node, lines 224-227: the call of the patch tool
ApplyCall(s, tools, d) ==
    IF tools.ok THEN ApplyPatchTool(d, s.file_path, s.error_line_no, s.patch_line)
    ELSE tools

apply_patch_node(s, tools, d) ==
    LET patched_code == ApplyCall(s, tools, d)
    IN  IF patched_code.ok
        THEN [s EXCEPT !.current_code = patched_code.value]
        ELSE [s EXCEPT !.error_message = "Failed to apply patch: " \o patched_code.error,
                       !.success = FALSE]

\* the file after apply_patch_node: ApplyPatchTool writes what it returns
DiskAfterApply(s, tools, d) ==
    LET patched_code == ApplyCall(s, tools, d)
    IN  IF patched_code.ok THEN [d EXCEPT !.content = patched_code.value] ELSE d

\* a variant of validate_patch_node that takes the fault line again from
\* the new test output
validate_patch_node_Relocalize(s, tools, run) ==
    IF tools.ok
    THEN LET test_output == RunTestsTool(run)
         IN  [s EXCEPT !.test_output = test_output,
                       !.tests_passed = TestsPassed(test_output),
                       !.error_line_no = extract_error_line_number(test_output)]
    ELSE [s EXCEPT !.error_message = "Failed to validate patch: " \o tools.error,
                   !.success = FALSE]

validate_patch_node(s, tools, run) ==
    IF tools.ok
    THEN LET test_output == RunTestsTool(run)
         IN  [s EXCEPT !.test_output = test_output,
                       !.tests_passed = TestsPassed(test_output)]
    ELSE [s EXCEPT !.error_message = "Failed to validate patch: " \o tools.error,
                   !.success = FALSE]

\* a variant of finish_success_node that reports success although its
\* handler raised
finish_success_node_SuccessOnError(s, tools) ==
    IF tools.ok
    THEN [s EXCEPT !.success = TRUE]
    ELSE [s EXCEPT !.error_message = "Error in success handler: " \o tools.error,
                   !.success = TRUE]

finish_success_node(s, tools) ==
    IF tools.ok
    THEN [s EXCEPT !.success = TRUE]
    ELSE [s EXCEPT !.error_message = "Error in success handler: " \o tools.error,
                   !.success = FALSE]

finish_failure_node(s) == [s EXCEPT !.success = FALSE]

\* a variant of the routing whose budget test is off by one
should_continue_repair_OffByOne(s) ==
    IF s.error_message # "" THEN "finish_failure"
    ELSE IF s.tests_passed THEN "finish_success"
    ELSE IF s.attempts > s.max_attempts THEN "finish_failure"
    ELSE "generate_patch"

\* a variant of the routing that tests the budget before the verdict
should_continue_repair_BudgetFirst(s) ==
    IF s.error_message # "" THEN "finish_failure"
    ELSE IF s.attempts >= s.max_attempts THEN "finish_failure"
    ELSE IF s.tests_passed THEN "finish_success"
    ELSE "generate_patch"

\* a variant of the routing that tests the verdict before the error
should_continue_repair_PassFirst(s) ==
    IF s.tests_passed THEN "finish_success"
    ELSE IF s.error_message # "" THEN "finish_failure"
    ELSE IF s.attempts >= s.max_attempts THEN "finish_failure"
    ELSE "generate_patch"

\* should_continue_repair: the conditional edge out of validate_patch
should_continue_repair(s) ==
    IF s.error_message # "" THEN "finish_failure"
    ELSE IF s.tests_passed THEN "finish_success"
    ELSE IF s.attempts >= s.max_attempts THEN "finish_failure"
    ELSE "generate_patch"

\* a variant of the graph that also routes on the verdict after Localize
NextNode_RouteAfterLocalize(n, s) ==
    CASE n = "load_code" -> "localize_defect"
      [] n = "localize_defect" ->
            IF s.tests_passed THEN "finish_success" ELSE "generate_patch"
      [] n = "generate_patch" -> "apply_patch"
      [] n = "apply_patch" -> "validate_patch"
      [] n = "validate_patch" -> should_continue_repair(s)
      [] n = "finish_success" -> "END"
      [] n = "finish_failure" -> "END"

\* create_apr_graph: the node that follows node n once it has produced s
NextNode(n, s) ==
    CASE n = "load_code" -> "localize_defect"
      [] n = "localize_defect" -> "generate_patch"
      [] n = "generate_patch" -> "apply_patch"
      [] n = "apply_patch" -> "validate_patch"
      [] n = "validate_patch" -> should_continue_repair(s)
      [] n = "finish_success" -> "END"
      [] n = "finish_failure" -> "END"

(***************************************************************************)
(* The inputs of a session.                                                *)
(***************************************************************************)
\* main(): os.path.join(root_dir, "python_programs", filename)
FilePath == "Code-Refactoring-QuixBugs/python_programs/gcd.py"

\* the file under repair before the session: a function with an indented
\* body; top-level code with a blank line and no final line break; no file
Programs == {"def gcd(a, b):\n  return a\n", "x = 1\n\ny = 2"}

Disks == {[exists |-> TRUE, content |-> c] : c \in Programs}
            \cup {[exists |-> FALSE, content |-> ""]}

Completed(out, err) == [kind |-> "completed", stdout |-> out, stderr |-> err]

\* what a run of the tester does: passes, prints nothing, fails naming line
\* 2, fails naming a line past the end of the file, fails naming line 0,
\* hangs past the timeout, or cannot be started
TesterRuns ==
    { Completed("ok\n", ""),
      Completed("", ""),
      Completed("FAIL\n", "  File \"gcd.py\", line 2, in gcd\nAssertionError\n"),
      Completed("", "TypeError on line 9\n"),
      Completed("FAILED at line 0\n", ""),
      [kind |-> "timeout"],
      [kind |-> "failed", error |-> "[Errno 13] Permission denied"] }

\* what the oracle does with a prompt: one line, a fenced block with an
\* indented line, two lines without a fence, nothing, or an exception
OracleReplies ==
    { Return("return b"),
      Return(Fence \o "python\n  return gcd(b, a)\n" \o Fence),
      Return("c = a\nreturn c"),
      Return(""),
      Raise("429 quota exceeded") }

\* what initialize_tools_and_llm() does in a node
ToolsOutcomes == {Return("tools"), Raise("GOOGLE_API_KEY is not set")}

Nodes == {"load_code", "localize_defect", "generate_patch", "apply_patch",
          "validate_patch", "finish_success", "finish_failure"}

\* main(): initial_state, for a given max_attempts
InitialState(max_attempts) ==
    [file_path |-> FilePath,
     original_code |-> "",
     current_code |-> "",
     error_line_no |-> 0,
     patch_line |-> "",
     test_output |-> "",
     tests_passed |-> FALSE,
     attempts |-> 0,
     max_attempts |-> max_attempts,
     success |-> FALSE,
     error_message |-> "",
     function_context |-> <<>>]

\* the history counters stop counting here
CountCap == MaxAttemptsBound + 3

Count(n) == IF n < CountCap THEN n + 1 ELSE n

Ran(node) == [executed EXCEPT ![node] = Count(executed[node])]

NoReply == [called |-> FALSE, reply |-> Raise("")]

Init ==
    /\ \E m \in 0..MaxAttemptsBound : state = InitialState(m)
    /\ disk \in Disks
    /\ pc = "load_code"
    /\ executed = [n \in Nodes |-> 0]
    /\ faults = {}
    /\ validate_log = <<>>
    /\ initial_passed = "not run"
    /\ last_response = NoReply
    /\ last_prompt = <<>>

(***************************************************************************)
(* One action per node of the graph; the edge out of the node is part of   *)
(* the step.                                                               *)
(***************************************************************************)
Load ==
    /\ pc = "load_code"
    /\ \E tools \in ToolsOutcomes :
        /\ state' = load_code_node(state, tools, disk)
        /\ faults' = IF tools.ok /\ LoadCodeTool(disk, state.file_path).ok
                     THEN faults ELSE faults \cup {"load_code"}
    /\ pc' = NextNode("load_code", state')
    /\ executed' = Ran("load_code")
    /\ UNCHANGED <<disk, validate_log, initial_passed, last_response,
                   last_prompt>>

\* localize_defect_node, given what initialize_tools_and_llm() and the
\* tester do in it
LocalizeWith(tools, run) ==
    /\ pc = "localize_defect"
    /\ state' = localize_defect_node(state, tools, run)
    /\ faults' =
        IF tools.ok /\ get_function_context(state.current_code,
                extract_error_line_number(RunTestsTool(run))).ok
        THEN faults ELSE faults \cup {"localize_defect"}
    /\ initial_passed' =
        IF ~tools.ok THEN initial_passed
        ELSE IF TestsPassed(RunTestsTool(run)) THEN "pass" ELSE "fail"
    /\ pc' = NextNode("localize_defect", state')
    /\ executed' = Ran("localize_defect")
    /\ UNCHANGED <<disk, validate_log, last_response, last_prompt>>

Localize ==
    \E tools \in ToolsOutcomes, run \in TesterRuns : LocalizeWith(tools, run)

\* generate_patch_node, given what initialize_tools_and_llm() and the oracle
\* do in it
GenerateWith(tools, reply) ==
    /\ pc = "generate_patch"
    /\ state' = generate_patch_node(state, tools, reply)
    /\ faults' = IF tools.ok /\ reply.ok
                 THEN faults ELSE faults \cup {"generate_patch"}
    /\ last_response' = IF tools.ok THEN [called |-> TRUE, reply |-> reply]
                        ELSE last_response
    /\ last_prompt' = IF tools.ok THEN PromptInput(state) ELSE last_prompt
    /\ pc' = NextNode("generate_patch", state')
    /\ executed' = Ran("generate_patch")
    /\ UNCHANGED <<disk, validate_log, initial_passed>>

Generate ==
    \E tools \in ToolsOutcomes, reply \in OracleReplies : GenerateWith(tools, reply)

\* apply_patch_node, given what initialize_tools_and_llm() does in it
ApplyWith(tools) ==
    /\ pc = "apply_patch"
    /\ state' = apply_patch_node(state, tools, disk)
    /\ disk' = DiskAfterApply(state, tools, disk)
    /\ faults' = IF ApplyCall(state, tools, disk).ok
                 THEN faults ELSE faults \cup {"apply_patch"}
    /\ pc' = NextNode("apply_patch", state')
    /\ executed' = Ran("apply_patch")
    /\ UNCHANGED <<validate_log, initial_passed, last_response, last_prompt>>

Apply == \E tools \in ToolsOutcomes : ApplyWith(tools)

Validate ==
    /\ pc = "validate_patch"
    /\ \E tools \in ToolsOutcomes, run \in TesterRuns :
        /\ state' = validate_patch_node(state, tools, run)
        /\ faults' = IF tools.ok THEN faults ELSE faults \cup {"validate_patch"}
        /\ validate_log' =
            IF tools.ok /\ Len(validate_log) < CountCap
            THEN Append(validate_log, IF state'.tests_passed THEN "pass" ELSE "fail")
            ELSE validate_log
    /\ pc' = NextNode("validate_patch", state')
    /\ executed' = Ran("validate_patch")
    /\ UNCHANGED <<disk, initial_passed, last_response, last_prompt>>

FinishSuccess ==
    /\ pc = "finish_success"
    /\ \E tools \in ToolsOutcomes :
        /\ state' = finish_success_node(state, tools)
        /\ faults' = IF tools.ok THEN faults ELSE faults \cup {"finish_success"}
    /\ pc' = NextNode("finish_success", state')
    /\ executed' = Ran("finish_success")
    /\ UNCHANGED <<disk, validate_log, initial_passed, last_response,
                   last_prompt>>

FinishFailure ==
    /\ pc = "finish_failure"
    /\ state' = finish_failure_node(state)
    /\ pc' = NextNode("finish_failure", state')
    /\ executed' = Ran("finish_failure")
    /\ UNCHANGED <<disk, faults, validate_log, initial_passed, last_response,
                   last_prompt>>

Next ==
    \/ Load
    \/ Localize
    \/ Generate
    \/ Apply
    \/ Validate
    \/ FinishSuccess
    \/ FinishFailure

\* app.invoke(initial_state): the graph runs its nodes until END
Spec == Init /\ [][Next]_vars

\* The step of the graph runtime, seen on pc alone: every node hands over to
\* another node or to END, and a node can run exactly when pc is not END.
RunsANode == pc # "END" /\ pc' \in (Nodes \cup {"END"}) \ {pc}

\* the graph runtime runs the next node whenever there is one (every step
\* of Next changes pc, so the steps this fairness asks for are those of Next)
FairSpec == Spec /\ WF_pc(RunsANode)

(***************************************************************************)
(* The patch tool on its own: a session that stands at apply_patch with    *)
(* any stored file, any line number and any candidate line of the bounded  *)
(* sets, and whose tools were constructed.                                 *)
(***************************************************************************)
\* at most this many fragments make up a test output or an oracle response
MaxFragments == 3

\* the texts made of at most n of the fragments F, one after the other
RECURSIVE Phrases(_, _)
Phrases(F, n) ==
    IF n = 0 THEN {""}
    ELSE LET shorter == Phrases(F, n - 1)
         IN  shorter \cup {s \o f : s \in shorter, f \in F}

\* a session as Load leaves it
Loaded(code) ==
    [InitialState(DefaultMaxAttempts) EXCEPT !.original_code = code,
                                             !.current_code = code]

\* the history variables of a session in which only Load has run
OnlyLoaded ==
    /\ executed = [n \in Nodes |-> IF n = "load_code" THEN 1 ELSE 0]
    /\ faults = {}
    /\ validate_log = <<>>
    /\ initial_passed = "not run"
    /\ last_response = NoReply
    /\ last_prompt = <<>>

(***************************************************************************)
(* extract_error_line_number on its own: test outputs made of references   *)
(* to lines in each of the five forms, and of text without any.            *)
(***************************************************************************)
OutputFragments ==
    {"line 7 ", "File \"a.py\", line 2 ", "Error on line 3 ", "at line 4 ",
     "Line 5: ", "oops ", "LINE 12"}

ExtractInit ==
    /\ \E out \in Phrases(OutputFragments, MaxFragments) :
        state = [Loaded("") EXCEPT !.test_output = out]
    /\ disk = [exists |-> TRUE, content |-> ""]
    /\ pc = "extract_error_line_number"
    /\ OnlyLoaded

\* localize_defect_node, line 158: error_line = extract_error_line_number(..)
ExtractLine ==
    /\ pc = "extract_error_line_number"
    /\ state' = [state EXCEPT
                    !.error_line_no = extract_error_line_number(state.test_output)]
    /\ pc' = "END"
    /\ UNCHANGED <<disk, executed, faults, validate_log, initial_passed,
                   last_response, last_prompt>>

ExtractSpec == ExtractInit /\ [][ExtractLine]_vars

(***************************************************************************)
(* The prompt of generate_patch_node on its own, for test outputs made of  *)
(* the keywords of identify_error_type in either case, and of other text.  *)
(***************************************************************************)
KeywordFragments ==
    {"IndexError ", "keyerror ", "TypeError ", "VALUEERROR ", "NameError ",
     "AssertionError ", "infinite ", "Timeout ", "oops "}

ClassifyInit ==
    /\ \E out \in Phrases(KeywordFragments, MaxFragments) :
        state = [Loaded("") EXCEPT !.test_output = out]
    /\ disk = [exists |-> TRUE, content |-> ""]
    /\ pc = "build_prompt"
    /\ OnlyLoaded

\* generate_patch_node, lines 183-195: prompt_input is built from the state
BuildPrompt ==
    /\ pc = "build_prompt"
    /\ last_prompt' = PromptInput(state)
    /\ pc' = "END"
    /\ UNCHANGED <<state, disk, executed, faults, validate_log, initial_passed,
                   last_response>>

ClassifySpec == ClassifyInit /\ [][BuildPrompt]_vars

(***************************************************************************)
(* generate_patch_node on its own: a session that stands at generate_patch *)
(* after a failing first test run, for oracle responses made of prose,     *)
(* fence lines, code lines and empty lines.                                *)
(***************************************************************************)
ResponseFragments ==
    {"Here is the fix:\n", "~~~python\n", "~~~\n", "  return b\n", "\n", "x = 1\n"}

SanitizeInit ==
    /\ state = localize_defect_node(Loaded("def gcd(a, b):\n  return a\n"),
                    Return("tools"),
                    Completed("FAIL\n", "  File \"gcd.py\", line 2, in gcd\n"))
    /\ disk = [exists |-> TRUE, content |-> "def gcd(a, b):\n  return a\n"]
    /\ pc = "generate_patch"
    /\ executed = [n \in Nodes |->
                    IF n \in {"load_code", "localize_defect"} THEN 1 ELSE 0]
    /\ faults = {}
    /\ validate_log = <<>>
    /\ initial_passed = "fail"
    /\ last_response = NoReply
    /\ last_prompt = <<>>

SanitizeNext ==
    \E r \in Phrases(ResponseFragments, MaxFragments) :
        GenerateWith(Return("tools"), Return(r))

SanitizeSpec == SanitizeInit /\ [][SanitizeNext]_vars

(***************************************************************************)
(* localize_defect_node and the prompt of generate_patch_node on their     *)
(* own: a loaded program of up to MaxContextLines lines, with or without a *)
(* function header, and a failing test run that names a line in it, just   *)
(* before it or past its end.                                              *)
(***************************************************************************)
MaxContextLines == 12

\* the program of n lines whose line h (if any) is a function header
ProgramOf(n, h) ==
    Join([i \in 1..n |->
            IF i = h THEN "def f(x):\n" ELSE "  s" \o ToString(i) \o "\n"])

\* a run of the tester that fails and names line k
FailsAtLine(k) == Completed("FAILED at line " \o ToString(k) \o "\n", "")

ContextInit ==
    /\ \E n \in 0..MaxContextLines : \E h \in 0..n :
        /\ state = Loaded(ProgramOf(n, h))
        /\ disk = [exists |-> TRUE, content |-> ProgramOf(n, h)]
    /\ pc = "localize_defect"
    /\ OnlyLoaded

\* localize_defect_node on a test run that names a line
ContextLocalize ==
    \E k \in 0..(MaxContextLines + 1) : LocalizeWith(Return("tools"), FailsAtLine(k))

\* generate_patch_node with an oracle that answers with one line
ContextGenerate == GenerateWith(Return("tools"), Return("return b"))

ContextNext == ContextLocalize \/ ContextGenerate

ContextSpec == ContextInit /\ [][ContextNext]_vars

\* the texts over alphabet A of at most n characters
RECURSIVE Texts(_, _)
Texts(A, n) ==
    IF n = 0 THEN {""}
    ELSE LET shorter == Texts(A, n - 1)
         IN  shorter \cup {s \o c : s \in shorter, c \in A}

TextAlphabet == {" ", "x", "\n"}

ApplyInit ==
    /\ \E c \in Texts(TextAlphabet, MaxFileLen),
          n \in (-1)..MaxLineNo,
          p \in Texts(TextAlphabet, MaxPatchLen) :
        /\ state = [InitialState(DefaultMaxAttempts) EXCEPT
                        !.original_code = c, !.current_code = c,
                        !.error_line_no = n, !.patch_line = p, !.attempts = 1]
        /\ disk = [exists |-> TRUE, content |-> c]
    /\ pc = "apply_patch"
    /\ executed = [n \in Nodes |->
                    IF n \in {"load_code", "localize_defect", "generate_patch"}
                    THEN 1 ELSE 0]
    /\ faults = {}
    /\ validate_log = <<>>
    /\ initial_passed = "fail"
    /\ last_response = NoReply
    /\ last_prompt = <<>>

ApplyNext == ApplyWith(Return("tools"))

ApplySpec == ApplyInit /\ [][ApplyNext]_vars

(***************************************************************************)
(* Properties.                                                             *)
(***************************************************************************)
AllValidateRunsFailed == \A i \in 1..Len(validate_log) : validate_log[i] = "fail"

\* C1: with max_attempts >= 1, while no node has raised and every Validate
\* run has reported failing tests, attempts stays within max_attempts, and a
\* session that ends so ends in Failure with attempts = max_attempts.
C1_ExhaustsBudget ==
    (state.max_attempts >= 1 /\ faults = {} /\ AllValidateRunsFailed)
        => /\ state.attempts <= state.max_attempts
           /\ pc = "END" =>
                /\ state.attempts = state.max_attempts
                /\ ~state.success
                /\ executed["finish_failure"] = 1
                /\ executed["finish_success"] = 0

C1_Witness ==
    /\ pc = "END"
    /\ faults = {}
    /\ AllValidateRunsFailed
    /\ state.max_attempts = DefaultMaxAttempts
    /\ state.attempts = DefaultMaxAttempts
    /\ Len(validate_log) = DefaultMaxAttempts

\* C2: when the test run of Localize fails, the first Validate run passes and
\* no node raises, the session goes to Success having run Generate exactly
\* once, and ends with success = true and attempts = 1.
C2_FirstPatchPasses ==
    (/\ faults = {}
     /\ initial_passed = "fail"
     /\ Len(validate_log) >= 1
     /\ validate_log[1] = "pass")
        => /\ pc \in {"finish_success", "END"}
           /\ state.attempts = 1
           /\ executed["generate_patch"] = 1
           /\ executed["finish_failure"] = 0
           /\ pc = "END" => (state.success /\ executed["finish_success"] = 1)

C2_Witness ==
    /\ pc = "END"
    /\ faults = {}
    /\ initial_passed = "fail"
    /\ validate_log = <<"pass">>
    /\ state.success
    /\ state.attempts = 1

\* C3: once Load has failed, the session is in Failure without Localize,
\* Generate, Apply or Validate having run, with success = false,
\* error_message set and attempts = 0.
C3_LoadFailureGoesToFailure ==
    ("load_code" \in faults)
        => /\ pc \in {"finish_failure", "END"}
           /\ executed["localize_defect"] = 0
           /\ executed["generate_patch"] = 0
           /\ executed["apply_patch"] = 0
           /\ executed["validate_patch"] = 0
           /\ ~last_response.called
           /\ state.attempts = 0
           /\ state.error_message # ""
           /\ ~state.success

\* C4: in every state, 0 <= attempts <= max_attempts, for every max_attempts
\* >= 0 (stated here for the sessions in which no node has raised).
C4_AttemptsWithinBudget ==
    faults = {} => (0 <= state.attempts /\ state.attempts <= state.max_attempts)

\* C5: every session ends: it reaches END having run exactly one of the two
\* finish nodes and stays there; Generate runs at most max_attempts times
\* (once when max_attempts is 0); and no node runs once END is reached.
C5_Terminates ==
    /\ <>[](pc = "END" /\ executed["finish_success"] + executed["finish_failure"] = 1)
    /\ [](executed["generate_patch"] <= Max(1, state.max_attempts))
    /\ [][pc # "END"]_vars

C5_Witness ==
    /\ pc = "END"
    /\ state.max_attempts >= 2
    /\ executed["generate_patch"] = state.max_attempts
    /\ executed["validate_patch"] = state.max_attempts
    /\ executed["finish_success"] + executed["finish_failure"] = 1

\* C6: the node that follows Validate is finish_failure when error_message
\* is set; otherwise finish_success when the tests passed; otherwise
\* finish_failure when attempts >= max_attempts; otherwise generate_patch.
C6_RoutingPriority ==
    [][pc = "validate_patch" =>
        /\ state'.error_message # "" => pc' = "finish_failure"
        /\ (state'.error_message = "" /\ state'.tests_passed)
                => pc' = "finish_success"
        /\ (state'.error_message = "" /\ ~state'.tests_passed
                /\ state'.attempts >= state'.max_attempts)
                => pc' = "finish_failure"
        /\ (state'.error_message = "" /\ ~state'.tests_passed
                /\ state'.attempts < state'.max_attempts)
                => pc' = "generate_patch"]_vars

\* a pass while error_message is set, with budget left, is routed to Failure
C6_Witness ==
    /\ pc = "finish_failure"
    /\ executed["finish_failure"] = 0
    /\ state.tests_passed
    /\ state.error_message # ""
    /\ state.attempts < state.max_attempts
    /\ Len(validate_log) >= 1
    /\ validate_log[Len(validate_log)] = "pass"

\* C7: once error_message is set it stays set, Generate is not entered after
\* that, and the session ends in Failure with success = false.
C7_ErrorStickyAndFatal ==
    [][state.error_message # "" =>
        /\ state'.error_message # ""
        /\ pc' # "generate_patch"
        /\ pc' = "END" => (~state'.success /\ executed'["finish_failure"] = 1)]_vars

\* the number of lines of the stored file
TotalLines(d) == Len(ReadLines(d.content))

\* C8: apply with line_no < 1 or line_no > total_lines fails with the range
\* error and leaves the stored file and the session's current_code as they
\* were.
C8_OutOfRangeLeavesFile ==
    [][(/\ pc = "apply_patch"
        /\ disk.exists
        /\ (state.error_line_no < 1 \/ state.error_line_no > TotalLines(disk)))
        => /\ disk' = disk
           /\ state'.current_code = state.current_code
           /\ "apply_patch" \in faults'
           /\ EndsWith(state'.error_message,
                "Line number " \o ToString(state.error_line_no)
                    \o " is out of range (1-" \o ToString(TotalLines(disk)) \o ")")]_vars

\* line 0 and a line past the end of a file of two lines, both refused
C8_Witness ==
    /\ pc = "validate_patch"
    /\ "apply_patch" \in faults
    /\ TotalLines(disk) = 2
    /\ state.error_line_no = 3
    /\ Strip(state.patch_line) # ""
    /\ state.current_code = disk.content
    /\ EndsWith(state.error_message, "Line number 3 is out of range (1-2)")

\* lines[line_no - 1] of f.readlines(): the line numbered n of a stored
\* text, with its line break when it has one
LineOf(content, n) == ReadLines(content)[n]

\* the number of leading whitespace characters of a line
IndentWidth(line) == Len(line) - Len(LStrip(line))

\* C9: for a target line of indentation width W and a candidate without
\* leading whitespace (here: a non-empty candidate with no whitespace at
\* either end), apply stores at line_no W spaces, the candidate and one line
\* break.  W counts the leading whitespace of the target line itself, its
\* line break left aside.
C9_IndentationPreserved ==
    [][(/\ pc = "apply_patch"
        /\ disk.exists
        /\ state.error_line_no \in 1..TotalLines(disk)
        /\ state.patch_line # ""
        /\ Strip(state.patch_line) = state.patch_line)
        => LET stored == LineOf(disk.content, state.error_line_no)
               target == IF EndsWith(stored, "\n")
                         THEN SubSeq(stored, 1, Len(stored) - 1) ELSE stored
               W == IndentWidth(target)
           IN  disk'.content =
                Join([ReadLines(disk.content) EXCEPT ![state.error_line_no] =
                        Spaces(W) \o Strip(state.patch_line) \o "\n"])]_vars

\* C10: an apply that succeeds leaves the number of lines of the stored file
\* as it was and changes no line other than line_no.
C10_OneLineRewritten ==
    [][(pc = "apply_patch" /\ "apply_patch" \notin faults')
        => LET before == ReadLines(disk.content)
               after == ReadLines(disk'.content)
           IN  /\ Len(after) = Len(before)
               /\ \A i \in 1..Len(before) :
                    i # state.error_line_no => after[i] = before[i]]_vars

\* what the test tool returns for a run that timed out
TimeoutText == RunTestsTool([kind |-> "timeout"])

\* C11: a Validate whose test run times out, in a session where no node has
\* raised, is a failed attempt like any other: error_message stays empty,
\* tests_passed becomes false, attempts is not touched by Validate and equals
\* the number of attempts validated so far (one unit per attempt), and the
\* next node is generate_patch when attempts < max_attempts and
\* finish_failure otherwise.
C11_TimeoutIsFailedAttempt ==
    [][(/\ pc = "validate_patch"
        /\ faults' = {}
        /\ state'.test_output = TimeoutText)
        => /\ state'.error_message = ""
           /\ ~state'.tests_passed
           /\ state'.attempts = state.attempts
           /\ state'.attempts = executed'["generate_patch"]
           /\ state'.attempts = Len(validate_log')
           /\ pc' = IF state.attempts < state.max_attempts
                    THEN "generate_patch" ELSE "finish_failure"]_vars

C11_Witness ==
    /\ pc = "generate_patch"
    /\ faults = {}
    /\ state.test_output = TimeoutText
    /\ executed["validate_patch"] = 2
    /\ state.attempts = 2
    /\ state.max_attempts = DefaultMaxAttempts

\* C12: a session whose k-th oracle call raises ends in Failure with
\* attempts = k: the Generate that called the oracle has counted its attempt
\* although the call raised (stated for the sessions in which nothing else
\* has raised).
C12_RaisingCallIsCounted ==
    (/\ pc = "END"
     /\ last_response.called
     /\ ~last_response.reply.ok
     /\ faults = {"generate_patch"})
        => /\ state.attempts = executed["generate_patch"]
           /\ ~state.success
           /\ executed["finish_failure"] = 1

\* the message was produced by initialize_tools_and_llm() raising
FromToolsFailure(msg) == \E t \in ToolsOutcomes : ~t.ok /\ EndsWith(msg, t.error)

\* C13: whatever the tester does and whatever text was loaded, a Localize or
\* a Validate that starts with error_message empty (and in which the set-up
\* of the tools does not raise) ends with error_message empty and with
\* test_output populated, Localize also with function_context populated.
C13_DomainFailuresNotSticky ==
    [][(/\ pc \in {"localize_defect", "validate_patch"}
        /\ state.error_message = ""
        /\ ~FromToolsFailure(state'.error_message))
        => /\ state'.error_message = ""
           /\ state'.test_output # ""
           /\ pc = "localize_defect" => state'.function_context # <<>>]_vars

\* the number that pattern p captures when it matches s at position i
Captured(p, s, i) ==
    LET g == GroupStart(p, s, i) IN ParseInt(SubSeq(s, g, DigitRunEnd(s, g)))

\* the patterns of the list other than the generic "line N"
SpecificPatterns == {p \in {Patterns[k] : k \in 1..Len(Patterns)} : p # "line (\\d+)"}

\* C14: extract_line returns 1 for a text without a line reference, a
\* captured number otherwise, and, the specific patterns being tried before
\* the generic one, the number of a specific pattern whenever one matches.
C14_SpecificBeforeGeneric ==
    pc = "END" =>
        LET s == state.test_output
        IN  /\ (\A k \in 1..Len(Patterns) : MatchesOf(Patterns[k], s) = {})
                    => state.error_line_no = 1
            /\ (\E p \in SpecificPatterns : MatchesOf(p, s) # {})
                    => \E p \in SpecificPatterns : \E i \in MatchesOf(p, s) :
                            state.error_line_no = Captured(p, s, i)

\* the keywords of classify_error with their categories, in priority order
Priority ==
    << <<{"indexerror"}, "Index Error (likely off-by-one or boundary issue)">>,
       <<{"keyerror"}, "Key Error (missing dictionary key)">>,
       <<{"typeerror"}, "Type Error (incorrect data type usage)">>,
       <<{"valueerror"}, "Value Error (invalid value)">>,
       <<{"nameerror"}, "Name Error (undefined variable)">>,
       <<{"assertion"}, "Logic Error (incorrect algorithm behavior)">>,
       <<{"infinite", "timeout"}, "Infinite Loop or Performance Issue">> >>

\* the ranks of the keywords that occur in a text, whatever their case
Present(text) ==
    {k \in 1..Len(Priority) : \E w \in Priority[k][1] : Contains(Lower(text), w)}

\* C15: the category in the prompt is that of the keyword of highest
\* priority among those present in the test output, and the generic one
\* when none is present.
C15_HighestPriorityKeyword ==
    pc = "END" =>
        last_prompt.error_type =
            IF Present(state.test_output) = {} THEN "General Error"
            ELSE Priority[SetMin(Present(state.test_output))][2]

C15_Witness ==
    /\ pc = "END"
    /\ Present(state.test_output) = {2, 6}
    /\ StartsWith(state.test_output, "AssertionError ")
    /\ last_prompt.error_type = "Key Error (missing dictionary key)"

\* C16: after Generate, patch_line is the trimmed response when the response
\* has no fence marker, and otherwise the first non-empty line inside the
\* fenced block (after the first fence line and before the next one, when
\* there is such a line), never text before the opening fence.
C16_FirstLineInsideFence ==
    (pc = "apply_patch" /\ last_response.called /\ last_response.reply.ok) =>
        LET response == last_response.reply.value
            lines == SplitNL(Strip(response))
            fences == {i \in 1..Len(lines) : StartsWith(Strip(lines[i]), Fence)}
            opening == SetMin(fences)
            closing == IF \E i \in fences : i > opening
                       THEN SetMin({i \in fences : i > opening})
                       ELSE Len(lines) + 1
            inside == IF fences = {} THEN {}
                      ELSE {i \in (opening + 1)..(closing - 1) :
                                Strip(lines[i]) # ""}
        IN  IF ~Contains(response, Fence)
            THEN state.patch_line = Strip(response)
            ELSE inside # {} => state.patch_line = lines[SetMin(inside)]

\* C17: for a fault line of the program, the context window holds the lines
\* numbered max(1, line_no - 5) to min(total_lines, line_no + 5), and
\* context_start_line is the number of the first of them.
C17_WindowOfFiveEachSide ==
    (/\ pc \in {"generate_patch", "apply_patch"}
     /\ faults = {}
     /\ state.error_line_no \in 1..Len(SplitLines(state.current_code)))
        => LET lines == SplitLines(state.current_code)
               first == Max(1, state.error_line_no - 5)
               last == Min(Len(lines), state.error_line_no + 5)
           IN  /\ state.function_context.context_lines = SubSeq(lines, first, last)
               /\ state.function_context.context_start_line = first

\* C18: when the diagnosis names no enclosing function (function_name is
\* None), the prompt carries the fallback label, not a function name.
C18_FallbackLabel ==
    (/\ pc = "apply_patch"
     /\ faults = {}
     /\ state.error_line_no \in 1..Len(SplitLines(state.current_code))
     /\ state.function_context.function_name.is_none)
        => last_prompt.function_context = "Code section"

\* C19: once error_message is set no stage writes the stored file: an Apply
\* that starts with error_message set leaves the file as it is.
C19_NoWriteAfterError ==
    [][(pc = "apply_patch" /\ state.error_message # "") => disk' = disk]_vars

\* C20: when the test run of Localize reports a pass, the session reaches a
\* finish node only after Generate, Apply and Validate have run; the first
\* Apply, if nothing has raised, finds attempts = 1 and rewrites the stored
\* file, which then differs from the program that was loaded.
C20_PassAtLocalizeStillPatches ==
    /\ []((initial_passed = "pass" /\ pc \in {"finish_success", "finish_failure", "END"})
            => /\ executed["generate_patch"] >= 1
               /\ executed["apply_patch"] >= 1
               /\ executed["validate_patch"] >= 1
               /\ faults = {} => /\ state.attempts >= 1
                                 /\ disk.content = state.current_code
                                 /\ disk.content # state.original_code)
    /\ [][(/\ pc = "apply_patch"
           /\ initial_passed = "pass"
           /\ executed["apply_patch"] = 0
           /\ faults' = {})
            => /\ state'.attempts = 1
               /\ disk' # disk
               /\ pc' = "validate_patch"]_vars

C20_Witness ==
    /\ pc = "END"
    /\ initial_passed = "pass"
    /\ faults = {}
    /\ state.attempts = 1
    /\ state.success
    /\ executed["apply_patch"] = 1
    /\ disk.content # state.original_code

\* C21: success is true only once the session has ended through
\* finish_success, and then error_message is empty, no node has raised, the
\* test run made after the last Apply passed, and attempts >= 1.
C21_SuccessOnlyAfterPass ==
    state.success =>
        /\ pc = "END"
        /\ executed["finish_success"] = 1
        /\ executed["finish_failure"] = 0
        /\ state.error_message = ""
        /\ faults = {}
        /\ state.tests_passed
        /\ Len(validate_log) = executed["apply_patch"]
        /\ validate_log # <<>>
        /\ validate_log[Len(validate_log)] = "pass"
        /\ state.attempts >= 1

C21_Witness ==
    /\ state.success
    /\ pc = "END"
    /\ state.attempts = 2
    /\ validate_log = <<"fail", "pass">>

\* C22: error_line_no and function_context are written by Localize only and
\* original_code by Load only: Generate, Apply, Validate and the finish nodes
\* leave the three as they are, so every Apply of a session is given the
\* line number that Localize stored.
C22_DiagnosisFrozenInLoop ==
    [][/\ pc \notin {"load_code", "localize_defect"}
            => /\ state'.error_line_no = state.error_line_no
               /\ state'.function_context = state.function_context
               /\ state'.original_code = state.original_code
       /\ pc = "load_code"
            => /\ state'.error_line_no = state.error_line_no
               /\ state'.function_context = state.function_context
       /\ pc = "localize_defect" => state'.original_code = state.original_code]_vars

\* a second Apply has run although the output of the first Validate names
\* another line than the one Localize stored
C22_Witness ==
    /\ pc = "validate_patch"
    /\ executed["apply_patch"] = 2
    /\ faults = {}
    /\ state.error_line_no = 2
    /\ extract_error_line_number(state.test_output) = 0
    /\ LineOf(disk.content, 2) = "  " \o Strip(state.patch_line) \o "\n"

=============================================================================
